---- MODULE Spec2Model ----
(***************************************************************************)
(* Signaling relay of the remote desktop application: the peer registry,   *)
(* the connection-request handshake, the opaque relay and the disconnect   *)
(* grace task of the public server (the source with the preferredId and    *)
(* the 10 s grace period).                                                  *)
(*                                                                         *)
(* Strings are tuples of one-character strings, so that                    *)
(* replace(/-/g, '') and slice() are computed as the code computes them.   *)
(* null, undefined and '' are all falsy for the code and never equal to a  *)
(* registry key; the empty tuple stands for the three of them.             *)
(* socket.emit is recorded as a push on the socket handle, whether or not  *)
(* the transport library still delivers it.                                *)
(***************************************************************************)
EXTENDS Integers, Sequences, FiniteSets, Bags, TLC

\* ---------------------------------------------------------------- bounds
\* requests uuidv4() is asked for, register handlers suspended at a time
MaxRequests == 1
MaxSuspended == 2
\* relayed messages whose order on the wire is followed
MaxFollowed == 2

\* socket.id of the transport sessions, in the order they connect; Spec connects
\* the first two, SpecReconnect all of them
Sockets == {1, 2, 3}
MainSockets == {1, 2}
\* values of uuidv4(), in the order they are drawn: SpecRequests draws one more
\* than the other specifications
CoreRequestIds == 1..MaxRequests
RequestIds == 1..(MaxRequests + 1)

\* ---------------------------------------------------------------- strings
Null == <<>>

Min(a, b) == IF a < b THEN a ELSE b

\* String.prototype.slice(a, b) for 0 <= a <= b
Slice(s, a, b) ==
    IF a >= Min(b, Len(s)) THEN <<>> ELSE SubSeq(s, a + 1, Min(b, Len(s)))

\* connectionId.replace(/-/g, '')
Normalize(s) == SelectSeq(s, LAMBDA c : c # "-")

\* `${id.slice(0, 3)}-${id.slice(3, 6)}-${id.slice(6, 9)}`
Format(n) == Slice(n, 0, 3) \o <<"-">> \o Slice(n, 3, 6) \o <<"-">> \o Slice(n, 6, 9)

\* Values Math.floor(100000000 + Math.random() * 900000000).toString() can take
\* (two of the 9-digit numbers)
RandomNumbers == { <<"1", "0", "0", "0", "0", "0", "0", "0", "0">>,
                   <<"9", "9", "9", "9", "9", "9", "9", "9", "9">> }

generateConnectionId(n) == Format(n)

\* A well-formed preferredId, written without separators
WellFormedId == <<"1", "2", "3", "4", "5", "6", "7", "8", "9">>

\* the relay events that only forward
RelayKinds == { "host-ready", "request-camera", "camera-response", "camera-ready",
                "webrtc-offer", "webrtc-answer", "webrtc-ice-candidate" }

\* ---------------------------------------------------------------- state
VARIABLES
    connections,         \* number of transport sessions io.on('connection') has seen
    connected,           \* sockets whose transport is live
    socketConnectionId,  \* socket.connectionId of every socket
    registering,         \* register handlers suspended on await getIceServers()
    peers,               \* const peers = new Map()
    pendingConnections,  \* const pendingConnections = new Map()
    nextRequestId,       \* the next value of uuidv4()
    timers,              \* setTimeout(..., 10000) callbacks not fired yet, in order
    emitted,             \* socket.emit calls of the handler that ran last, in order
    reply,               \* callback(...) result of the handler that ran last
    resolutions,         \* per requestId, the accepted/rejected notifications emitted so far
    lostPaired,          \* ids whose transport was lost while their entry was
                         \* connectedTo another registered peer, until reclaimed
    reRegistered,        \* those of them a new session has asked for as preferredId
    lastEvent,           \* the handler that ran last and the branch it took
    wire,                \* per socket, the followed pushes the transport has not delivered yet
    received,            \* per socket, the followed pushes its client has received, in order
    relayed              \* number of followed pushes the relay handlers have made

\* the transport of the followed pushes
transport == << wire, received, relayed >>

vars == << connections, connected, socketConnectionId, registering, peers,
           pendingConnections, nextRequestId, timers, emitted, reply,
           resolutions, lostPaired, reRegistered, lastEvent, wire, received, relayed >>

NoReply == [to |-> 0, success |-> FALSE, connectionId |-> Null, requestId |-> 0, error |-> ""]
NoEvent == [name |-> "none", branch |-> "none", requestId |-> 0]

\* socket.emit(event, {...}) on the socket of id `to`
Emit(to, event, id, requestId, data) ==
    [to |-> to, event |-> event, id |-> id, requestId |-> requestId, data |-> data]

\* the handler that ran and the branch of its code it took
Event(name, branch) == [NoEvent EXCEPT !.name = name, !.branch = branch]

Peer(socketId, status, connectedTo) ==
    [socketId |-> socketId, status |-> status, connectedTo |-> connectedTo]

\* a delete that is forgotten
RemoveNothing(map, keys) == map

\* Map.prototype.delete, for every key of keys
Remove(map, keys) == [k \in (DOMAIN map) \ keys |-> map[k]]

\* Map.prototype.set
MapSet(map, key, value) ==
    [k \in (DOMAIN map) \cup {key} |-> IF k = key THEN value ELSE map[k]]

Init ==
    /\ connections = 0
    /\ connected = {}
    /\ socketConnectionId = [s \in Sockets |-> Null]
    /\ registering = EmptyBag
    /\ peers = << >>
    /\ pendingConnections = << >>
    /\ nextRequestId = 1
    /\ timers = << >>
    /\ emitted = << >>
    /\ reply = NoReply
    /\ resolutions = [r \in RequestIds |-> 0]
    /\ lostPaired = {}
    /\ reRegistered = {}
    /\ lastEvent = NoEvent
    /\ wire = [s \in Sockets |-> << >>]
    /\ received = [s \in Sockets |-> << >>]
    /\ relayed = 0

\* ---------------------------------------------------------------- lookups
\* a lookup that compares the keys as they are written
MatchingIdsExact(map, connectionId) ==
    { connId \in DOMAIN map : connId = connectionId }

\* keys whose hyphen-stripped form equals the hyphen-stripped argument
\* (the for-of loop returns the first of them in insertion order)
MatchingIds(map, connectionId) ==
    { connId \in DOMAIN map : Normalize(connId) = Normalize(connectionId) }

\* Array.from(peers.values()).find(p => p.socketId === socketId)
PeersOfSocket(map, socketId) ==
    { connId \in DOMAIN map : map[connId].socketId = socketId }

\* io.on('connection', socket => ...): socket ids are handed out in order
Connect(sockets) ==
    /\ connections + 1 \in sockets
    /\ connections' = connections + 1
    /\ connected' = connected \cup {connections + 1}
    /\ emitted' = << >>
    /\ reply' = NoReply
    /\ lastEvent' = Event("connection", "connected")
    /\ UNCHANGED transport
    /\ UNCHANGED << socketConnectionId, registering, peers, pendingConnections,
                    nextRequestId, timers, resolutions, lostPaired, reRegistered >>

\* ---------------------------------------------------------------- register
PreferredInputs == { Null, WellFormedId }

\* socket.on('register') up to "await getIceServers()"; preferredId is not
\* used before the await, it is drawn where the handler resumes
RegisterStart(s) ==
    /\ s \in connected
    /\ BagCardinality(registering) < MaxSuspended
    /\ registering' = registering (+) SetToBag({s})
    /\ emitted' = << >>
    /\ reply' = NoReply
    /\ lastEvent' = Event("register", "suspended")
    /\ UNCHANGED transport
    /\ UNCHANGED << connections, connected, socketConnectionId, peers, pendingConnections,
                    nextRequestId, timers, resolutions, lostPaired, reRegistered >>

\* a register handler without the check for an existing registration
HasLiveRegistrationNever(map, connectionId) == FALSE

\* socket.connectionId && peers.has(socket.connectionId)
HasLiveRegistration(map, connectionId) ==
    connectionId # Null /\ connectionId \in DOMAIN map

\* the preferred id adopted without the !peers.has(formatted) test
AdoptedPreferredTaken(map, preferredId) ==
    IF preferredId # Null /\ Len(Normalize(preferredId)) = 9
    THEN Format(Normalize(preferredId)) ELSE Null

\* the preferred id as the code adopts it, Null when it is not adopted
AdoptedPreferred(map, preferredId) ==
    LET normalizedPreferred == Normalize(preferredId)
        formatted == Format(normalizedPreferred)
    IN  IF preferredId # Null /\ Len(normalizedPreferred) = 9 /\ formatted \notin DOMAIN map
        THEN formatted ELSE Null

\* ids the register handler can end up with: the preferred one, or one that
\* leaves the while (peers.has(connectionId)) loop
RegisterIds(map, preferredId) ==
    IF AdoptedPreferred(map, preferredId) # Null
    THEN { AdoptedPreferred(map, preferredId) }
    ELSE { generateConnectionId(n) : n \in RandomNumbers } \ DOMAIN map

\* ids lost while paired that the live session s asks for
LostIdsAskedFor(s, preferredId) ==
    { id \in MatchingIds(peers, preferredId) \cap lostPaired :
        s \in connected /\ peers[id].socketId # s /\ peers[id].socketId \notin connected }

\* socket.on('register') from the resumption after the await to the end
RegisterResume(s, preferredId) ==
    /\ BagIn(s, registering)
    /\ registering' = registering (-) SetToBag({s})
    /\ emitted' = << >>
    /\ IF HasLiveRegistration(peers, socketConnectionId[s])
       THEN /\ lastEvent' = Event("register-resume", "existing")
            /\ reply' = [NoReply EXCEPT !.to = s, !.success = TRUE,
                                        !.connectionId = socketConnectionId[s]]
            /\ UNCHANGED << peers, socketConnectionId, reRegistered >>
       ELSE \E connectionId \in RegisterIds(peers, preferredId) :
                /\ lastEvent' = Event("register-resume", "registered")
                /\ peers' = MapSet(peers, connectionId, Peer(s, "available", Null))
                /\ socketConnectionId' = [socketConnectionId EXCEPT ![s] = connectionId]
                /\ reRegistered' = reRegistered \cup LostIdsAskedFor(s, preferredId)
                /\ reply' = [NoReply EXCEPT !.to = s, !.success = TRUE,
                                            !.connectionId = connectionId]
    /\ UNCHANGED transport
    /\ UNCHANGED << connections, connected, pendingConnections, nextRequestId,
                    timers, resolutions, lostPaired >>
\* ---------------------------------------------------------------- handshake
\* targetId arguments: every id the registry can hold, one of them also without
\* its separators
TargetInputs ==
    { generateConnectionId(n) : n \in RandomNumbers } \cup { Format(WellFormedId), WellFormedId }

PendingRequest(viewerSocketId, viewerConnectionId, hostSocketId, hostConnectionId) ==
    [viewerSocketId |-> viewerSocketId, viewerConnectionId |-> viewerConnectionId,
     hostSocketId |-> hostSocketId, hostConnectionId |-> hostConnectionId]

\* a request that takes the place of the oldest pending one
RequestIdReused(next, pending) == IF DOMAIN pending = {} THEN next ELSE 1

\* const requestId = uuidv4(): a value no earlier call returned
RequestId(next, pending) == next

\* targetPeer.status === 'busy'
IsBusy(targetPeer) == targetPeer.status = "busy"

\* socket.on('request-connection')
RequestConnection(s, targetId) ==
    /\ s \in connected
    /\ IF MatchingIds(peers, targetId) = {}
       THEN /\ lastEvent' = Event("request-connection", "not-found")
            /\ reply' = [NoReply EXCEPT !.to = s, !.error = "Peer not found or offline"]
            /\ emitted' = << >>
            /\ UNCHANGED << pendingConnections, nextRequestId >>
       ELSE \E targetConnectionId \in MatchingIds(peers, targetId) :
                IF IsBusy(peers[targetConnectionId])
                THEN /\ lastEvent' = Event("request-connection", "busy")
                     /\ reply' = [NoReply EXCEPT !.to = s,
                                      !.error = "Peer is busy with another session"]
                     /\ emitted' = << >>
                     /\ UNCHANGED << pendingConnections, nextRequestId >>
                ELSE /\ nextRequestId \in RequestIds
                     /\ LET requestId == RequestId(nextRequestId, pendingConnections)
                        IN  /\ lastEvent' = [Event("request-connection", "created")
                                                EXCEPT !.requestId = requestId]
                            /\ pendingConnections' = MapSet(pendingConnections, requestId,
                                   PendingRequest(s, socketConnectionId[s],
                                        peers[targetConnectionId].socketId,
                                        targetConnectionId))
                            /\ emitted' = << Emit(peers[targetConnectionId].socketId,
                                                  "connection-request", socketConnectionId[s],
                                                  requestId, "Unknown") >>
                            /\ reply' = [NoReply EXCEPT !.to = s, !.success = TRUE,
                                                        !.requestId = requestId]
                     /\ nextRequestId' = nextRequestId + 1
    /\ UNCHANGED transport
    /\ UNCHANGED << connections, connected, socketConnectionId, registering, peers,
                    timers, resolutions, lostPaired, reRegistered >>

\* the accept branch of connection-response: the two peers.get(...) updates in order
Accept(map, request) ==
    LET afterHost ==
            IF request.hostConnectionId \in DOMAIN map
            THEN [map EXCEPT ![request.hostConnectionId] =
                      Peer(@.socketId, "busy", request.viewerConnectionId)]
            ELSE map
    IN  IF request.viewerConnectionId \in DOMAIN afterHost
        THEN [afterHost EXCEPT ![request.viewerConnectionId] =
                  Peer(@.socketId, "busy", request.hostConnectionId)]
        ELSE afterHost

\* a connection-response that does not look for the viewer's entry
ResponseBranchViewerUnchecked(map, pending, requestId, accepted) ==
    IF requestId \notin DOMAIN pending THEN "no-request"
    ELSE IF accepted THEN "accepted" ELSE "rejected"

\* the branch connection-response takes
ResponseBranch(map, pending, requestId, accepted) ==
    IF requestId \notin DOMAIN pending THEN "no-request"
    ELSE IF PeersOfSocket(map, pending[requestId].viewerSocketId) = {} THEN "viewer-gone"
    ELSE IF accepted THEN "accepted" ELSE "rejected"

\* socket.on('connection-response')
ConnectionResponse(s, requestId, accepted) ==
    /\ s \in connected
    /\ reply' = NoReply
    /\ LET branch == ResponseBranch(peers, pendingConnections, requestId, accepted)
           request == pendingConnections[requestId]
       IN  /\ lastEvent' = [Event("connection-response", branch)
                               EXCEPT !.requestId = requestId]
           /\ pendingConnections' = IF branch = "no-request" THEN pendingConnections
                                    ELSE Remove(pendingConnections, {requestId})
           /\ peers' = IF branch = "accepted" THEN Accept(peers, request) ELSE peers
           /\ emitted' = IF branch = "accepted"
                         THEN << Emit(request.viewerSocketId, "connection-accepted",
                                      request.hostConnectionId, 0, "") >>
                         ELSE IF branch = "rejected"
                         THEN << Emit(request.viewerSocketId, "connection-rejected",
                                      request.hostConnectionId, 0, "") >>
                         ELSE << >>
           /\ resolutions' = IF branch \in {"accepted", "rejected"}
                             THEN [resolutions EXCEPT ![requestId] = @ + 1]
                             ELSE resolutions
    /\ UNCHANGED transport
    /\ UNCHANGED << connections, connected, socketConnectionId, registering,
                    nextRequestId, timers, lostPaired, reRegistered >>

\* ---------------------------------------------------------------- relay
\* a relay that forwards the event without what the sender attached
RelayDataDropped(kind, payload) == ""

\* host-ready, request-camera, camera-*, webrtc-*: the event pushed to the target
RelayEvent(kind) == IF kind = "request-camera" THEN "camera-request" ELSE kind

\* what the pushed event carries besides the sender's id: accepted, offer, answer
\* or candidate; host-ready, camera-request and camera-ready carry nothing
RelayData(kind, payload) ==
    IF kind \in {"host-ready", "request-camera", "camera-ready"} THEN "" ELSE payload

\* payloads whose pushes are followed on the wire
FollowedPayloads == { "m1" }

\* an emit that overtakes the pushes already made on the socket
PushFront(queue, push) == << push >> \o queue

\* socket.emit: the push joins the socket's outgoing packets, behind those
\* made before it
Push(queue, push) == Append(queue, push)

\* a followed push: the event, the session that sent it and its rank among the
\* followed pushes, in the order the handlers made them
Followed(event, id, data, from, rank) ==
    [event |-> event, id |-> id, data |-> data, from |-> from, rank |-> rank]

\* a relay handler that ends the target's session, as end-session does
RelayResetsTarget(s, kind, targetId, payload) ==
    /\ s \in connected
    /\ reply' = NoReply
    /\ emitted' = << >>
    /\ lastEvent' = Event(kind, "dropped")
    /\ peers' = [id \in DOMAIN peers |->
                    IF id \in MatchingIds(peers, targetId)
                    THEN Peer(peers[id].socketId, "available", Null) ELSE peers[id]]
    /\ UNCHANGED transport
    /\ UNCHANGED << connections, connected, socketConnectionId, registering,
                    pendingConnections, nextRequestId, timers, resolutions, lostPaired,
                    reRegistered >>

Relay(s, kind, targetId, payload) ==
    /\ s \in connected
    /\ reply' = NoReply
    /\ IF MatchingIds(peers, targetId) = {}
       THEN /\ emitted' = << >>
            /\ lastEvent' = Event(kind, "dropped")
            /\ UNCHANGED transport
       ELSE \E target \in MatchingIds(peers, targetId) :
             /\ lastEvent' = Event(kind, "forwarded")
             /\ emitted' = << Emit(peers[target].socketId, RelayEvent(kind),
                                   socketConnectionId[s], 0,
                                   RelayData(kind, payload)) >>
             /\ IF payload \in FollowedPayloads
                THEN /\ relayed < MaxFollowed
                     /\ relayed' = relayed + 1
                     /\ wire' = [wire EXCEPT ![peers[target].socketId] =
                                     Push(@, Followed(RelayEvent(kind), socketConnectionId[s],
                                                      RelayData(kind, payload), s, relayed + 1))]
                     /\ UNCHANGED received
                ELSE UNCHANGED transport
    /\ UNCHANGED << connections, connected, socketConnectionId, registering, peers,
                    pendingConnections, nextRequestId, timers, resolutions, lostPaired,
                    reRegistered >>

\* the transport hands the oldest outgoing packet of a live socket to its client
Deliver(s) ==
    /\ s \in connected
    /\ wire[s] # << >>
    /\ wire' = [wire EXCEPT ![s] = Tail(@)]
    /\ received' = [received EXCEPT ![s] = Append(@, Head(wire[s]))]
    /\ UNCHANGED << connections, connected, socketConnectionId, registering, peers,
                    pendingConnections, nextRequestId, timers, emitted, reply, resolutions,
                    lostPaired, reRegistered, lastEvent, relayed >>

\* a reset that forgets connectedTo = null
ResetStatusOnly(map, id) ==
    IF id \in DOMAIN map
    THEN [map EXCEPT ![id] = Peer(@.socketId, "available", @.connectedTo)]
    ELSE map

\* status = 'available'; connectedTo = null on the entry of key id, if there is one
Reset(map, id) ==
    IF id \in DOMAIN map
    THEN [map EXCEPT ![id] = Peer(@.socketId, "available", Null)]
    ELSE map

\* an end-session that resets the target only
EndSessionResetsTargetOnly(map, target, own) == Reset(map, target)

\* the two resets of end-session: the target found (Null for none), then
\* peers.get(socket.connectionId)
EndSessionResets(map, target, own) == Reset(Reset(map, target), own)

\* socket.on('end-session')
EndSession(s, targetId) ==
    /\ s \in connected
    /\ reply' = NoReply
    /\ lastEvent' = Event("end-session", IF MatchingIds(peers, targetId) = {}
                                         THEN "target-missing" ELSE "target-found")
    /\ IF MatchingIds(peers, targetId) = {}
       THEN /\ emitted' = << >>
            /\ peers' = EndSessionResets(peers, Null, socketConnectionId[s])
       ELSE \E target \in MatchingIds(peers, targetId) :
                /\ emitted' = << Emit(peers[target].socketId, "session-ended",
                                      socketConnectionId[s], 0, "") >>
                /\ peers' = EndSessionResets(peers, target, socketConnectionId[s])
    /\ UNCHANGED transport
    /\ UNCHANGED << connections, connected, socketConnectionId, registering,
                    pendingConnections, nextRequestId, timers, resolutions, lostPaired, reRegistered >>
\* ---------------------------------------------------------------- disconnect
\* what the setTimeout callback closes over
Timer(disconnectedId, socketId) == [disconnectedId |-> disconnectedId, socketId |-> socketId]

\* the id of socket s, when its entry is connectedTo another registered peer
PairedIdsOf(s) ==
    { id \in PeersOfSocket(peers, s) :
        /\ id = socketConnectionId[s]
        /\ peers[id].connectedTo \in (DOMAIN peers) \ {id} }

\* a disconnect handler that unregisters the peer at once, without grace period
DisconnectAtOnce(s) ==
    /\ s \in connected
    /\ connected' = connected \ {s}
    /\ peers' = Remove(peers, {socketConnectionId[s]})
    /\ emitted' = << >>
    /\ reply' = NoReply
    /\ lastEvent' = Event("disconnect", "unregistered")
    /\ UNCHANGED transport
    /\ UNCHANGED << connections, socketConnectionId, registering, timers, lostPaired,
                    pendingConnections, nextRequestId, resolutions, reRegistered >>

\* socket.on('disconnect'): schedules the grace task when socket.connectionId is set
Disconnect(s) ==
    /\ s \in connected
    /\ connected' = connected \ {s}
    /\ timers' = IF socketConnectionId[s] # Null
                 THEN Append(timers, Timer(socketConnectionId[s], s))
                 ELSE timers
    /\ emitted' = << >>
    /\ reply' = NoReply
    /\ lastEvent' = Event("disconnect", IF socketConnectionId[s] # Null
                                        THEN "scheduled" ELSE "unregistered")
    /\ lostPaired' = lostPaired \cup PairedIdsOf(s)
    /\ UNCHANGED transport
    /\ UNCHANGED << connections, socketConnectionId, registering, peers,
                    pendingConnections, nextRequestId, resolutions, reRegistered >>

\* the early returns of the grace task
GraceBranch(map, disconnectedId, socketId) ==
    IF disconnectedId \in DOMAIN map /\ map[disconnectedId].socketId # socketId
    THEN "reconnected"
    ELSE IF disconnectedId \notin DOMAIN map THEN "cleaned-up" ELSE "reclaimed"

\* requests the loop of the grace task rejects with a notification
RejectedRequests(map, pending, disconnectedId) ==
    { r \in DOMAIN pending : /\ pending[r].hostConnectionId = disconnectedId
                             /\ PeersOfSocket(map, pending[r].viewerSocketId) # {} }

\* a grace task without the loop over the pending requests
ReapedRequestsNone(pending, disconnectedId) == {}

\* a loop that deletes only the requests the disconnected peer made
ReapedRequestsOfViewer(pending, disconnectedId) ==
    { r \in DOMAIN pending : pending[r].viewerConnectionId = disconnectedId }

\* requests the loop of the grace task deletes
ReapedRequests(pending, disconnectedId) ==
    { r \in DOMAIN pending : \/ pending[r].hostConnectionId = disconnectedId
                             \/ pending[r].viewerConnectionId = disconnectedId }

\* the connection-rejected pushes of the loop, in the Map's insertion order
RECURSIVE GraceRejections(_, _, _, _)
GraceRejections(map, pending, disconnectedId, r) ==
    IF r >= nextRequestId THEN << >>
    ELSE (IF r \in RejectedRequests(map, pending, disconnectedId)
          THEN << Emit(pending[r].viewerSocketId, "connection-rejected", Null, 0,
                       "Peer disconnected") >>
          ELSE << >>) \o GraceRejections(map, pending, disconnectedId, r + 1)

\* the peer findPeerByConnectionId(peer.connectedTo) can return, Null for none
ConnectedPeers(map, peer) ==
    IF peer.connectedTo # Null /\ MatchingIds(map, peer.connectedTo) # {}
    THEN MatchingIds(map, peer.connectedTo)
    ELSE {Null}

\* the setTimeout callback of the disconnect handler; timers of equal delay
\* fire in the order they were scheduled
GraceTask ==
    /\ timers # << >>
    /\ timers' = Tail(timers)
    /\ reply' = NoReply
    /\ LET disconnectedId == Head(timers).disconnectedId
           branch == GraceBranch(peers, disconnectedId, Head(timers).socketId)
       IN  /\ lastEvent' = Event("grace-task", branch)
           /\ IF branch # "reclaimed"
              THEN /\ emitted' = << >>
                   /\ UNCHANGED << peers, pendingConnections, resolutions,
                                   lostPaired, reRegistered >>
              ELSE \E connectedPeer \in ConnectedPeers(peers, peers[disconnectedId]) :
                     LET afterReset == Reset(peers, connectedPeer)
                         notice == IF connectedPeer = Null THEN << >>
                                   ELSE << Emit(peers[connectedPeer].socketId,
                                                "peer-disconnected", disconnectedId, 0, "") >>
                         rejected == RejectedRequests(afterReset, pendingConnections,
                                                      disconnectedId)
                     IN  /\ emitted' = notice \o GraceRejections(afterReset,
                                           pendingConnections, disconnectedId, 1)
                         /\ resolutions' = [r \in RequestIds |->
                                              IF r \in rejected THEN resolutions[r] + 1
                                              ELSE resolutions[r]]
                         /\ pendingConnections' =
                               Remove(pendingConnections,
                                      ReapedRequests(pendingConnections, disconnectedId))
                         /\ peers' = Remove(afterReset, {disconnectedId})
                         /\ lostPaired' = lostPaired \ {disconnectedId}
                         /\ reRegistered' = reRegistered \ {disconnectedId}
    /\ UNCHANGED transport
    /\ UNCHANGED << connections, connected, socketConnectionId, registering, nextRequestId >>

\* ---------------------------------------------------------------- specification
\* The relay handlers change no state but the pushes of the last handler; Spec
\* draws them from one kind and one payload.
CoreRelayKinds == { "webrtc-offer" }
CorePayloads == { "p1" }

\* Two transport sessions, every handler
Next ==
    \/ Connect(MainSockets)
    \/ \E s \in Sockets : RegisterStart(s)
    \/ \E s \in Sockets : \E preferredId \in PreferredInputs : RegisterResume(s, preferredId)
    \/ \E s \in Sockets : \E targetId \in TargetInputs :
            /\ RequestConnection(s, targetId)
            /\ nextRequestId' # nextRequestId => nextRequestId \in CoreRequestIds
    \/ \E s \in Sockets : \E r \in CoreRequestIds : \E accepted \in BOOLEAN :
            ConnectionResponse(s, r, accepted)
    \/ \E s \in Sockets : \E kind \in CoreRelayKinds : \E targetId \in TargetInputs :
            \E payload \in CorePayloads : Relay(s, kind, targetId, payload)
    \/ \E s \in Sockets : \E targetId \in TargetInputs : EndSession(s, targetId)
    \/ \E s \in Sockets : Disconnect(s)
    \/ GraceTask

Spec == Init /\ [][Next]_vars

\* Three transport sessions, so that a session can be paired with a second one
\* while a third one registers: the handshake and the disconnect handlers only,
\* with one register handler suspended at a time.
NextReconnect ==
    \/ Connect(Sockets)
    \/ \E s \in Sockets : registering = EmptyBag /\ RegisterStart(s)
    \/ \E s \in Sockets : \E preferredId \in PreferredInputs : RegisterResume(s, preferredId)
    \/ \E s \in Sockets : \E targetId \in TargetInputs :
            /\ RequestConnection(s, targetId)
            /\ nextRequestId' # nextRequestId => nextRequestId \in CoreRequestIds
    \/ \E s \in Sockets : \E r \in CoreRequestIds : \E accepted \in BOOLEAN :
            ConnectionResponse(s, r, accepted)
    \/ \E s \in Sockets : Disconnect(s)
    \/ GraceTask

SpecReconnect == Init /\ [][NextReconnect]_vars

\* Two transport sessions and every relay handler with two payloads: the
\* handlers that register, relay, end a session and disconnect, with one
\* register handler suspended at a time.
RelayPayloads == { "p1", "p2" }

NextRelay ==
    \/ Connect(MainSockets)
    \/ \E s \in Sockets : registering = EmptyBag /\ RegisterStart(s)
    \/ \E s \in Sockets : \E preferredId \in PreferredInputs : RegisterResume(s, preferredId)
    \/ \E s \in Sockets : \E kind \in RelayKinds : \E targetId \in TargetInputs :
            \E payload \in RelayPayloads : Relay(s, kind, targetId, payload)
    \/ \E s \in Sockets : \E targetId \in TargetInputs : EndSession(s, targetId)
    \/ \E s \in Sockets : Disconnect(s)
    \/ GraceTask

SpecRelay == Init /\ [][NextRelay]_vars

\* Two transport sessions whose WebRTC signalling is followed from the relay
\* handler to the receiving client
FifoKinds == { "webrtc-offer", "webrtc-ice-candidate" }

NextFifo ==
    \/ Connect(MainSockets)
    \/ \E s \in Sockets : registering = EmptyBag /\ RegisterStart(s)
    \/ \E s \in Sockets : \E preferredId \in PreferredInputs : RegisterResume(s, preferredId)
    \/ \E s \in Sockets : \E kind \in FifoKinds : \E targetId \in TargetInputs :
            \E payload \in FollowedPayloads : Relay(s, kind, targetId, payload)
    \/ \E s \in Sockets : Disconnect(s)
    \/ GraceTask
    \/ \E s \in Sockets : Deliver(s)

SpecFifo == Init /\ [][NextFifo]_vars

\* Two transport sessions that register with preferredId values of every
\* shape: none, nine digits with and without separators, nine digits a
\* generated identifier can equal, too short, too long, nine letters
RegisterInputs ==
    PreferredInputs \cup RandomNumbers \cup
    { Format(WellFormedId),
      <<"1", "2", "3", "4", "5", "6", "7", "8">>,
      <<"1", "2", "3", "4", "5", "6", "7", "8", "9", "0">>,
      <<"a", "b", "c", "d", "e", "f", "g", "h", "i">> }

NextRegister ==
    \/ Connect(MainSockets)
    \/ \E s \in Sockets : RegisterStart(s)
    \/ \E s \in Sockets : \E preferredId \in RegisterInputs : RegisterResume(s, preferredId)
    \/ \E s \in Sockets : Disconnect(s)
    \/ GraceTask

SpecRegister == Init /\ [][NextRegister]_vars

\* Two transport sessions and the handshake with one more request than Spec, so
\* that a request is made while another one is pending or was resolved; one
\* register handler suspended at a time, no relay.
NextRequests ==
    \/ Connect(MainSockets)
    \/ \E s \in Sockets : registering = EmptyBag /\ RegisterStart(s)
    \/ \E s \in Sockets : \E preferredId \in PreferredInputs : RegisterResume(s, preferredId)
    \/ \E s \in Sockets : \E targetId \in TargetInputs : RequestConnection(s, targetId)
    \/ \E s \in Sockets : \E r \in RequestIds : \E accepted \in BOOLEAN :
            ConnectionResponse(s, r, accepted)
    \/ \E s \in Sockets : Disconnect(s)
    \/ GraceTask

SpecRequests == Init /\ [][NextRequests]_vars

\* Two transport sessions that register and disconnect, under the scheduling
\* of the event loop: a timer that was set fires, and an awaited
\* getIceServers() resolves, so a suspended register handler resumes.
NextReclaim ==
    \/ Connect(MainSockets)
    \/ \E s \in Sockets : RegisterStart(s)
    \/ \E s \in Sockets : \E preferredId \in PreferredInputs : RegisterResume(s, preferredId)
    \/ \E s \in Sockets : Disconnect(s)
    \/ GraceTask

SpecReclaim ==
    /\ Init
    /\ [][NextReclaim]_vars
    /\ WF_vars(GraceTask)
    /\ \A s \in Sockets :
          WF_vars(\E preferredId \in PreferredInputs : RegisterResume(s, preferredId))

\* ---------------------------------------------------------------- claims
UniqueNormalizedIds(map) ==
    \A a, b \in DOMAIN map : Normalize(a) = Normalize(b) => a = b

\* C1: after every handler, no two registered peers have the same hyphen-stripped
\* identifier, an entry that stays in the registry stays with its transport
\* session, and an identifier newly assigned to a session was held by no entry.
C1_UniqueIdentifiers ==
    [][ /\ UniqueNormalizedIds(peers')
        /\ \A id \in DOMAIN peers :
              id \in DOMAIN peers' => peers'[id].socketId = peers[id].socketId
        /\ \A s \in Sockets :
              socketConnectionId'[s] # socketConnectionId[s]
                 => socketConnectionId'[s] \notin DOMAIN peers ]_vars

\* two peers are registered, one under the preferred id, and the last handler
\* registered one of them
C1_Witness ==
    /\ Cardinality(DOMAIN peers) = 2
    /\ Format(WellFormedId) \in DOMAIN peers
    /\ lastEvent.name = "register-resume" /\ lastEvent.branch = "registered"

\* C2: a register handler that resumes on a session holding a registry entry
\* returns the session's identifier and leaves the registry and the session's
\* identifier unchanged; after every handler the registry has at most one
\* entry per transport session, whatever the order suspended handlers resume in.
C2_RegisterIdempotent ==
    [][ /\ \A s \in Sockets : \A p \in PreferredInputs :
              ( /\ lastEvent'.name = "register-resume"
                /\ socketConnectionId[s] # Null
                /\ socketConnectionId[s] \in DOMAIN peers
                /\ RegisterResume(s, p) )
              => /\ peers' = peers
                 /\ socketConnectionId' = socketConnectionId
                 /\ reply'.to = s /\ reply'.success
                 /\ reply'.connectionId = socketConnectionId[s]
        /\ \A s \in Sockets : Cardinality(PeersOfSocket(peers', s)) <= 1 ]_vars

\* a second register handler of a session resumed while the session held an
\* entry and another of its handlers was still suspended
C2_Witness ==
    /\ lastEvent.name = "register-resume" /\ lastEvent.branch = "existing"
    /\ reply.connectionId \in DOMAIN peers
    /\ peers[reply.connectionId].socketId = reply.to
    /\ BagIn(reply.to, registering)

\* C3: when connection-response with accepted = true is processed for a pending
\* request whose requesting transport has a registry entry, then right after it
\* the host and the requesting peer are both busy and connectedTo each other,
\* the only push is one connection-accepted with the host id on the requester's
\* socket, and the request is deleted.
C3_AcceptPairsBoth ==
    [][ \A s \in Sockets : \A r \in RequestIds :
          ( /\ lastEvent'.name = "connection-response"
            /\ r \in DOMAIN pendingConnections
            /\ PeersOfSocket(peers, pendingConnections[r].viewerSocketId) # {}
            /\ ConnectionResponse(s, r, TRUE) )
          => LET request == pendingConnections[r]
                 host == request.hostConnectionId
             IN  \A viewer \in PeersOfSocket(peers, request.viewerSocketId) :
                   /\ host \in DOMAIN peers' /\ viewer \in DOMAIN peers'
                   /\ peers'[host].status = "busy" /\ peers'[host].connectedTo = viewer
                   /\ peers'[viewer].status = "busy" /\ peers'[viewer].connectedTo = host
                   /\ emitted' = << Emit(request.viewerSocketId, "connection-accepted",
                                         host, 0, "") >>
                   /\ r \notin DOMAIN pendingConnections' ]_vars

\* C4: every registered peer is busy exactly when its connectedTo is set.
C4_BusyIffConnected ==
    \A id \in DOMAIN peers :
        (peers[id].status = "busy") <=> (peers[id].connectedTo # Null)

\* C5: whenever a registered peer A has connectedTo = B, B is registered and has
\* connectedTo = A.
C5_PairingSymmetric ==
    \A a \in DOMAIN peers :
        peers[a].connectedTo # Null
           => /\ peers[a].connectedTo \in DOMAIN peers
              /\ peers[peers[a].connectedTo].connectedTo = a

NotFoundReply(s) == [NoReply EXCEPT !.to = s, !.error = "Peer not found or offline"]
BusyReply(s) == [NoReply EXCEPT !.to = s, !.error = "Peer is busy with another session"]

\* C6: request-connection answers the caller with the not-found error when no
\* registered peer has the hyphen-stripped target id, and with the busy error when
\* the peer that has it is busy; in both cases nothing is pushed to any socket,
\* no request is created and the registry is unchanged.
C6_RequestErrors ==
    [][ \A s \in Sockets : \A t \in TargetInputs :
          (lastEvent'.name = "request-connection" /\ RequestConnection(s, t))
          => /\ (\A id \in DOMAIN peers : Normalize(id) # Normalize(t))
                   => /\ reply' = NotFoundReply(s)
                      /\ emitted' = << >>
                      /\ pendingConnections' = pendingConnections
                      /\ peers' = peers
             /\ (\E id \in DOMAIN peers : /\ Normalize(id) = Normalize(t)
                                          /\ peers[id].status = "busy")
                   => /\ reply' = BusyReply(s)
                      /\ emitted' = << >>
                      /\ pendingConnections' = pendingConnections
                      /\ peers' = peers ]_vars

\* a request for a busy peer was answered with the busy error
C6_Witness ==
    /\ lastEvent.name = "request-connection" /\ lastEvent.branch = "busy"
    /\ reply = BusyReply(reply.to)
    /\ \E id \in DOMAIN peers : peers[id].status = "busy"

Resolution(e) == e.event \in {"connection-accepted", "connection-rejected"}

\* C7: no request is resolved twice: a connection-response pushes an accepted or
\* rejected notification only for a request that is pending and deletes it in
\* the same step, a deleted request never comes back, no requestId ever gets
\* more than one resolution, and a connection-response naming a requestId that is
\* not pending changes no peer, no request and pushes nothing.
C7_OneShot ==
    [][ /\ \A r \in RequestIds : resolutions'[r] <= 1
        /\ \A r \in RequestIds :
              (r < nextRequestId /\ r \notin DOMAIN pendingConnections)
                 => r \notin DOMAIN pendingConnections'
        /\ \A s \in Sockets : \A r \in RequestIds : \A a \in BOOLEAN :
              (lastEvent'.name = "connection-response" /\ ConnectionResponse(s, r, a))
              => /\ (\E i \in DOMAIN emitted' : Resolution(emitted'[i]))
                       => /\ r \in DOMAIN pendingConnections
                          /\ r \notin DOMAIN pendingConnections'
                          /\ Len(emitted') = 1
                 /\ r \notin DOMAIN pendingConnections
                       => /\ peers' = peers
                          /\ pendingConnections' = pendingConnections
                          /\ emitted' = << >>
                          /\ resolutions' = resolutions ]_vars

\* a connection-response named a request that had been resolved before
C7_Witness ==
    /\ lastEvent.name = "connection-response" /\ lastEvent.branch = "no-request"
    /\ resolutions[lastEvent.requestId] = 1
    /\ emitted = << >>

C9_ReRegistrationWins ==
    [][ (lastEvent'.name = "grace-task" /\ timers # << >> /\ GraceTask)
        => LET h == Head(timers).disconnectedId
           IN  ( /\ h \in reRegistered
                 /\ h \in DOMAIN peers
                 /\ peers[h].connectedTo \in (DOMAIN peers) \ {h} )
               => /\ emitted' = << >>
                  /\ peers' = peers
                  /\ pendingConnections' = pendingConnections ]_vars

DisconnectRejection(to) == Emit(to, "connection-rejected", Null, 0, "Peer disconnected")

\* C10: when the grace task reclaims host H, every request still pending for H
\* is deleted, the socket of each such request's viewer that has a registry
\* entry gets one connection-rejected with the disconnect reason per request,
\* the deleted requestId never becomes pending again, and a later
\* connection-response naming it changes nothing and pushes nothing.
C10_HostReclaimRejectsPending ==
    [][ /\ (lastEvent'.name = "grace-task" /\ timers # << >> /\ GraceTask)
           => LET h == Head(timers).disconnectedId
                  ofHost == { r \in DOMAIN pendingConnections :
                                 pendingConnections[r].hostConnectionId = h }
                  notified(to) ==
                      { r \in ofHost : /\ pendingConnections[r].viewerSocketId = to
                                       /\ PeersOfSocket(peers, to) # {} }
              IN  (h \in DOMAIN peers /\ peers[h].socketId = Head(timers).socketId)
                  => /\ \A r \in ofHost : r \notin DOMAIN pendingConnections'
                     /\ \A to \in Sockets :
                           Cardinality({ i \in DOMAIN emitted' :
                                            emitted'[i] = DisconnectRejection(to) })
                              = Cardinality(notified(to))
        /\ \A r \in RequestIds :
              (r < nextRequestId /\ r \notin DOMAIN pendingConnections)
                 => /\ r \notin DOMAIN pendingConnections'
                    /\ \A s \in Sockets : \A a \in BOOLEAN :
                          ( /\ lastEvent'.name = "connection-response"
                            /\ ConnectionResponse(s, r, a) )
                          => /\ peers' = peers
                             /\ pendingConnections' = pendingConnections
                             /\ emitted' = << >> ]_vars

\* the grace task reclaimed a host and rejected a request that was pending for it
C10_Witness ==
    /\ lastEvent.name = "grace-task" /\ lastEvent.branch = "reclaimed"
    /\ \E i \in DOMAIN emitted : emitted[i] = DisconnectRejection(emitted[i].to)
    /\ \E r \in RequestIds : r < nextRequestId /\ resolutions[r] = 1
    /\ pendingConnections = << >>

\* C11: when the grace task reclaims the peer X of a lost transport session,
\* every request whose host is X is deleted with one rejection pushed to its
\* viewer's socket, every other request made by X or by X's session is deleted
\* without a push, and nothing else is pushed as a rejection: after the step no
\* pending request names X as host or as requester.
C11_ReclaimDeletesRequests ==
    [][ (lastEvent'.name = "grace-task" /\ timers # << >> /\ GraceTask)
        => LET x == Head(timers).disconnectedId
               session == Head(timers).socketId
               ofHost == { r \in DOMAIN pendingConnections :
                              pendingConnections[r].hostConnectionId = x }
               ofViewer == { r \in DOMAIN pendingConnections :
                                \/ pendingConnections[r].viewerConnectionId = x
                                \/ pendingConnections[r].viewerSocketId = session }
           IN  (x \in DOMAIN peers /\ peers[x].socketId = session)
               => /\ \A r \in ofHost \cup ofViewer : r \notin DOMAIN pendingConnections'
                  /\ \A to \in Sockets :
                        Cardinality({ i \in DOMAIN emitted' :
                                         emitted'[i] = DisconnectRejection(to) })
                           = Cardinality({ r \in ofHost :
                                  pendingConnections[r].viewerSocketId = to }) ]_vars

\* C12: end-session resets the caller's own entry, when it has one, to available
\* with connectedTo null whether or not the target is found; a target that is
\* found is reset as well and its socket gets the only push, one session-ended
\* naming the caller; nothing is pushed when it is not found; every other entry
\* and every pending request stay as they were.
C12_EndSessionResets ==
    [][ \A s \in Sockets : \A t \in TargetInputs :
          (lastEvent'.name = "end-session" /\ EndSession(s, t))
          => LET own == socketConnectionId[s]
                 found == { id \in DOMAIN peers : Normalize(id) = Normalize(t) }
             IN  /\ DOMAIN peers' = DOMAIN peers
                 /\ own \in DOMAIN peers
                       => peers'[own] = Peer(peers[own].socketId, "available", Null)
                 /\ \A id \in found :
                       /\ peers'[id] = Peer(peers[id].socketId, "available", Null)
                       /\ emitted' = << Emit(peers[id].socketId, "session-ended",
                                             own, 0, "") >>
                 /\ found = {} => emitted' = << >>
                 /\ \A id \in (DOMAIN peers) \ (found \cup {own}) : peers'[id] = peers[id]
                 /\ pendingConnections' = pendingConnections ]_vars

\* end-session named no registered peer and reset the caller, whose partner is
\* still connectedTo it
C12_Witness ==
    /\ lastEvent.name = "end-session" /\ lastEvent.branch = "target-missing"
    /\ emitted = << >>
    /\ \E own, other \in DOMAIN peers :
          /\ own # other
          /\ own \in { socketConnectionId[s] : s \in connected }
          /\ peers[own].status = "available" /\ peers[own].connectedTo = Null
          /\ peers[other].connectedTo = own

\* C13: every relay handler (host-ready, request-camera, camera-response,
\* camera-ready, webrtc-offer, webrtc-answer, webrtc-ice-candidate, end-session)
\* pushes, when a registered peer has the hyphen-stripped target id, exactly one
\* event of its kind with the sender's identifier and the payload as received,
\* on that peer's socket and on no other; when no peer has it, nothing is
\* pushed; the sender's callback is never called.
C13_RelayDelivers ==
    [][ (lastEvent'.name \in RelayKinds \cup {"end-session"})
        => LET kind == lastEvent'.name
               event == CASE kind = "request-camera" -> "camera-request"
                          [] kind = "end-session" -> "session-ended"
                          [] OTHER -> kind
               carried == { "camera-response", "webrtc-offer", "webrtc-answer",
                            "webrtc-ice-candidate" }
           IN  \A s \in connected : \A t \in TargetInputs : \A payload \in RelayPayloads :
                 (IF kind = "end-session" THEN EndSession(s, t)
                                          ELSE Relay(s, kind, t, payload))
                 => LET found == { id \in DOMAIN peers : Normalize(id) = Normalize(t) }
                        data == IF kind \in carried THEN payload ELSE ""
                    IN  /\ \A id \in found :
                              emitted' = << Emit(peers[id].socketId, event,
                                                 socketConnectionId[s], 0, data) >>
                        /\ found = {} => emitted' = << >>
                        /\ reply' = NoReply ]_vars

\* a registered sender's camera-response with the second payload was forwarded
\* to another session's peer, addressed without separators
C13_Witness ==
    /\ lastEvent.name = "camera-response" /\ lastEvent.branch = "forwarded"
    /\ Len(emitted) = 1
    /\ emitted[1].data = "p2"
    /\ emitted[1].id \in DOMAIN peers
    /\ peers[emitted[1].id].socketId # emitted[1].to
    /\ Format(WellFormedId) \in PeersOfSocket(peers, emitted[1].to)

Digits == { "0", "1", "2", "3", "4", "5", "6", "7", "8", "9" }

AllDigits(str) == \A i \in DOMAIN str : str[i] \in Digits

\* NNN-NNN-NNN
IdentifierForm(id) ==
    /\ Len(id) = 11
    /\ id[4] = "-" /\ id[8] = "-"
    /\ \A i \in (1..11) \ {4, 8} : id[i] \in Digits

\* C15: when a register handler resumes on a session without a live
\* registration, the session's identifier becomes the formatted preferredId
\* exactly when a preferredId was supplied that has nine digits once its
\* separators are removed and that no registered peer holds; in every case the
\* identifier assigned was not in the registry before; and every identifier in
\* the registry has the form NNN-NNN-NNN with digits only.
C15_PreferredAdoption ==
    [][ /\ \A s \in Sockets : \A p \in RegisterInputs :
              ( /\ lastEvent'.name = "register-resume"
                /\ ~ (socketConnectionId[s] # Null /\ socketConnectionId[s] \in DOMAIN peers)
                /\ RegisterResume(s, p) )
              => LET n == Normalize(p)
                     wellFormed == p # Null /\ Len(n) = 9 /\ AllDigits(n)
                     held == \E id \in DOMAIN peers : Normalize(id) = n
                 IN  /\ (wellFormed /\ ~ held) <=> (socketConnectionId'[s] = Format(n))
                     /\ socketConnectionId'[s] \notin DOMAIN peers
                     /\ socketConnectionId'[s] \in DOMAIN peers'
        /\ \A id \in DOMAIN peers' : IdentifierForm(id) ]_vars

\* C16: a request-connection whose target is registered and not busy adds
\* exactly one pending request, under a requestId that is not pending and was
\* never returned before, holding the requester's socket and identifier and the
\* target's; the only push is one connection-request with that requestId and the
\* requester's identifier on the target's socket; the caller gets the requestId;
\* every other request and the whole registry stay as they were.
C16_RequestCreates ==
    [][ \A s \in Sockets : \A t \in TargetInputs :
          (lastEvent'.name = "request-connection" /\ RequestConnection(s, t))
          => \A id \in DOMAIN peers :
               (Normalize(id) = Normalize(t) /\ peers[id].status = "available")
               => \E r \in RequestIds :
                     /\ r \notin DOMAIN pendingConnections
                     /\ r >= nextRequestId
                     /\ DOMAIN pendingConnections' = DOMAIN pendingConnections \cup {r}
                     /\ \A q \in DOMAIN pendingConnections :
                           pendingConnections'[q] = pendingConnections[q]
                     /\ pendingConnections'[r] =
                           PendingRequest(s, socketConnectionId[s], peers[id].socketId, id)
                     /\ emitted' = << Emit(peers[id].socketId, "connection-request",
                                           socketConnectionId[s], r, "Unknown") >>
                     /\ reply' = [NoReply EXCEPT !.to = s, !.success = TRUE,
                                                 !.requestId = r]
                     /\ peers' = peers ]_vars

\* a registered session's request was created while an earlier request was
\* still pending
C16_Witness ==
    /\ lastEvent.name = "request-connection" /\ lastEvent.branch = "created"
    /\ Cardinality(DOMAIN pendingConnections) = 2
    /\ reply.requestId = 2 /\ reply.success
    /\ pendingConnections[2].viewerConnectionId \in DOMAIN peers
    /\ Len(emitted) = 1 /\ emitted[1].requestId = 2

\* C17: the disconnect handler of a session changes no registry entry and no
\* pending request and pushes nothing, it only schedules the grace task of a
\* registered session; and as long as no grace task fires, the entry of a peer
\* whose transport is lost stays in the registry and no handler pushes a
\* peer-disconnected or a connection-rejected with the disconnect reason.
C17_LossDeferred ==
    [][ /\ \A s \in connected \ connected' :
              /\ peers' = peers
              /\ pendingConnections' = pendingConnections
              /\ emitted' = << >>
              /\ socketConnectionId[s] \in DOMAIN peers
                    => timers' = Append(timers, Timer(socketConnectionId[s], s))
        /\ Len(timers') >= Len(timers)
              => /\ \A id \in DOMAIN peers :
                       peers[id].socketId \notin connected => id \in DOMAIN peers'
                 /\ \A i \in DOMAIN emitted' :
                       /\ emitted'[i].event # "peer-disconnected"
                       /\ emitted'[i] # DisconnectRejection(emitted'[i].to) ]_vars

\* the transport of a paired peer is lost and its grace task has not fired: the
\* peer and its partner are still busy and connectedTo each other
C17_Witness ==
    /\ lastEvent.name = "disconnect" /\ lastEvent.branch = "scheduled"
    /\ timers # << >>
    /\ \E id, partner \in DOMAIN peers :
          /\ id # partner
          /\ peers[id].socketId \notin connected
          /\ id = Head(timers).disconnectedId
          /\ peers[id].status = "busy" /\ peers[id].connectedTo = partner
          /\ peers[partner].status = "busy" /\ peers[partner].connectedTo = id

\* The case of C18 (a grace task that finds its identifier gone, or held by
\* another transport session) does not arise: every grace task not fired yet
\* finds the entry of its identifier, bound to the session that scheduled it.
\* An entry is only deleted by the task of the session that holds it, a session
\* disconnects once, and an identifier in the registry is never given out.
GraceTaskAlwaysReclaims ==
    \A i \in DOMAIN timers :
        GraceBranch(peers, timers[i].disconnectedId, timers[i].socketId) = "reclaimed"

\* C19: host-ready, request-camera, camera-response, camera-ready, webrtc-offer,
\* webrtc-answer and webrtc-ice-candidate leave the registry (its entries, their
\* sessions, status and connectedTo), the pending requests, the sessions'
\* identifiers and the scheduled grace tasks as they were, whether the target
\* is found or not.
C19_RelayFrame ==
    [][ lastEvent'.name \in RelayKinds
        => /\ peers' = peers
           /\ pendingConnections' = pendingConnections
           /\ socketConnectionId' = socketConnectionId
           /\ timers' = timers
           /\ nextRequestId' = nextRequestId ]_vars

\* an offer was forwarded between two peers that are busy and connectedTo each
\* other
C19_Witness ==
    /\ lastEvent.name \in RelayKinds /\ lastEvent.branch = "forwarded"
    /\ Len(emitted) = 1
    /\ emitted[1].id \in DOMAIN peers
    /\ peers[emitted[1].id].status = "busy"
    /\ \E target \in PeersOfSocket(peers, emitted[1].to) :
          /\ target # emitted[1].id
          /\ peers[emitted[1].id].connectedTo = target
          /\ peers[target].status = "busy" /\ peers[target].connectedTo = emitted[1].id

\* C20: a connection-response changes a peer only when it accepts a pending
\* request whose requesting session has a registry entry. A reject of such a
\* request pushes one connection-rejected with the host identifier on the
\* requester's socket, and nothing else; when the requesting session has no
\* entry the request is deleted and nothing is pushed, accepted or not; when
\* the request is not pending nothing happens.
C20_ResponseFrame ==
    [][ \A s \in Sockets : \A r \in RequestIds : \A a \in BOOLEAN :
          (lastEvent'.name = "connection-response" /\ ConnectionResponse(s, r, a))
          => LET live == r \in DOMAIN pendingConnections
                 registered ==
                     live /\ \E id \in DOMAIN peers :
                                peers[id].socketId = pendingConnections[r].viewerSocketId
             IN  /\ ~ (registered /\ a) => peers' = peers
                 /\ (registered /\ ~ a)
                       => /\ emitted' = << Emit(pendingConnections[r].viewerSocketId,
                                                "connection-rejected",
                                                pendingConnections[r].hostConnectionId,
                                                0, "") >>
                          /\ r \notin DOMAIN pendingConnections'
                 /\ (live /\ ~ registered)
                       => /\ emitted' = << >>
                          /\ r \notin DOMAIN pendingConnections'
                 /\ ~ live => /\ emitted' = << >>
                              /\ pendingConnections' = pendingConnections ]_vars

\* a response to the request of a session without registry entry deleted the
\* request and left the host available
C20_Witness ==
    /\ lastEvent.name = "connection-response" /\ lastEvent.branch = "viewer-gone"
    /\ emitted = << >>
    /\ lastEvent.requestId \notin DOMAIN pendingConnections
    /\ resolutions[lastEvent.requestId] = 0
    /\ \E id \in DOMAIN peers : peers[id].status = "available"

\* C21: whenever a registry entry is bound to a transport session that has
\* terminated, the registry eventually holds no entry bound to that session.
C21_ReclamationComplete ==
    \A s \in Sockets :
        (s \notin connected /\ PeersOfSocket(peers, s) # {})
           ~> (PeersOfSocket(peers, s) = {})

\* C22: the hostConnectionId of every pending request is the identifier of a
\* registered peer.
C22_HostRegistered ==
    \A r \in DOMAIN pendingConnections :
        pendingConnections[r].hostConnectionId \in DOMAIN peers

\* a grace task reclaimed a host and rejected the request pending for it,
\* while the request pending for another host stays
C22_Witness ==
    /\ lastEvent.name = "grace-task" /\ lastEvent.branch = "reclaimed"
    /\ \E r \in RequestIds : r < nextRequestId /\ r \notin DOMAIN pendingConnections
                             /\ resolutions[r] = 1
    /\ \E i \in DOMAIN emitted : emitted[i] = DisconnectRejection(emitted[i].to)
    /\ \E r \in DOMAIN pendingConnections :
          pendingConnections[r].hostConnectionId \in DOMAIN peers

\* C23: a connection-response for a pending request that comes from a session
\* other than the one registered under the request's hostConnectionId changes
\* no registry entry, leaves the request pending and pushes no
\* connection-accepted and no connection-rejected.
C23_OnlyHostResolves ==
    [][ \A s \in Sockets : \A r \in RequestIds : \A a \in BOOLEAN :
          ( /\ lastEvent'.name = "connection-response"
            /\ r \in DOMAIN pendingConnections
            /\ pendingConnections[r].hostConnectionId \in DOMAIN peers
            /\ peers[pendingConnections[r].hostConnectionId].socketId # s
            /\ ConnectionResponse(s, r, a) )
          => /\ peers' = peers
             /\ pendingConnections' = pendingConnections
             /\ \A i \in DOMAIN emitted' : ~ Resolution(emitted'[i]) ]_vars

\* The entry the counterexample of C21 ends with does not depend on the
\* sessions stopping: an entry bound to a terminated session for which no grace
\* task is scheduled is removed by no handler, whatever runs afterwards.
LeakedEntryStays ==
    [][ \A id \in DOMAIN peers :
          ( /\ peers[id].socketId \notin connected
            /\ \A i \in DOMAIN timers : timers[i].disconnectedId # id )
          => /\ id \in DOMAIN peers'
             /\ peers'[id].socketId = peers[id].socketId
             /\ \A i \in DOMAIN timers' : timers'[i].disconnectedId # id ]_vars
====
